---- MODULE Spec2Model ----
(***************************************************************************)
(* Certificate Validation Dashboard: the Archive Writer                    *)
(* (save_to_blob_storage, in services/push_to_blob.py and in               *)
(* services/upload_service.py) and the Analysis Client that calls it.      *)
(***************************************************************************)
EXTENDS Integers, Sequences, FiniteSets, TLC

(***************************************************************************)
(* Python values.  Every value has the same record shape so that any two   *)
(* of them can be compared: t is the Python type, s the text of a str and  *)
(* l the elements of a list.                                               *)
(***************************************************************************)
None == [t |-> "none", s |-> "", l |-> <<>>]
Str(x) == [t |-> "str", s |-> x, l |-> <<>>]
List(xs) == [t |-> "list", s |-> "", l |-> xs]

\* Python truthiness of a value: None, "" and [] are falsy.
Truthy(v) ==
    CASE v.t = "none" -> FALSE
      [] v.t = "str" -> v.s # ""
      [] v.t = "list" -> v.l # <<>>

\* A dict is a function from the keys it holds to their values.
EmptyDict == [k \in {} |-> None]

\* d[k] = v on a dict: the key is added when it is missing.
DictSet(d, k, v) == [x \in (DOMAIN d) \cup {k} |-> IF x = k THEN v ELSE d[x]]

(***************************************************************************)
(* json.dumps of a value and of a dict.  The text of a dict is kept per    *)
(* key (a JSON object does not order its members).                         *)
(***************************************************************************)
RECURSIVE JsonItems(_)
JsonItems(xs) ==
    IF xs = <<>> THEN ""
    ELSE IF Len(xs) = 1 THEN "\"" \o Head(xs) \o "\""
    ELSE "\"" \o Head(xs) \o "\", " \o JsonItems(Tail(xs))

JsonValue(v) ==
    CASE v.t = "none" -> "null"
      [] v.t = "str" -> "\"" \o v.s \o "\""
      [] v.t = "list" -> "[" \o JsonItems(v.l) \o "]"

JsonDumps(d) == [k \in DOMAIN d |-> JsonValue(d[k])]

(***************************************************************************)
(* Exceptions.  at is the attempt (1..) whose raise statement created the  *)
(* exception object and call the archive call it was created in; status is *)
(* the response status the message quotes (0 when it quotes none).         *)
(***************************************************************************)
NoException == [type |-> "None", msg |-> "", status |-> 0, call |-> 0, at |-> 0]
Exc(type, msg, status, c, n) ==
    [type |-> type, msg |-> msg, status |-> status, call |-> c, at |-> n]

(***************************************************************************)
(* Configuration (upload_service.py:19-33, config in push_to_blob.py:6):   *)
(* sample values of the three secrets the URL is built from.               *)
(***************************************************************************)
BLOB_URL == "https://acct.blob.core.windows.net/"
CONTAINER_NAME == "results"
SAS_TOKEN == "?sv=sas"

\* The two modules that define save_to_blob_storage.
Impls == {"push_to_blob", "upload_service"}

\* Archive calls that can be in progress.
Calls == {1, 2}

(***************************************************************************)
(* Bounds of the model.                                                    *)
(***************************************************************************)
\* Largest epoch-millisecond reading of datetime.now() that is drawn.
MaxTimestamp == 1

\* The file names an archive call is given.
FileNames == {"cert.pdf", "a.b.pdf", "scan"}

\* Outcomes of one requests.put: a response with a status, or an exception
\* raised by the transport.
Statuses == {200, 201, 400, 403, 409, 500}
Response(st) == [kind |-> "response", status |-> st]
TransportError == [kind |-> "exception", status |-> 0]
Outcomes == {Response(st) : st \in Statuses} \cup {TransportError}

\* The fields mappings an archive call is given: each key is missing or has
\* one of the values listed for it.
Missing == [t |-> "missing", s |-> "", l |-> <<>>]
DocumentNames == {Missing, None, Str(""), List(<<>>), Str("Declaration")}
DeviceNames == {Missing, None, Str(""), Str("Pump"), List(<<"Pump", "Valve">>)}
CertificateNos == {Missing, Str("C-1")}
MakeDict(doc, dev, cert) ==
    LET all == [documentName |-> doc, deviceName |-> dev, certificateNo |-> cert]
        keys == {k \in DOMAIN all : all[k] # Missing}
    IN  [k \in keys |-> all[k]]
FieldInputs ==
    {MakeDict(doc, dev, cert) :
        doc \in DocumentNames, dev \in DeviceNames, cert \in CertificateNos}

(***************************************************************************)
(* State.  Every variable but localFiles is a function of the archive call.*)
(***************************************************************************)
VARIABLES
    pc,             \* where the call is in save_to_blob_storage
    impl,           \* the module whose save_to_blob_storage runs
    file_name,      \* the file_name argument
    fields,         \* the dict object passed as fields (assigned in place)
    given,          \* the keys and values fields had when the call was made
    blob_name,      \* the local blob_name
    url,            \* the local url
    attempt,        \* the local attempt
    last_exception, \* the local last_exception
    events,         \* what the call did so far: its PUTs and its sleeps
    raised,         \* the exception the call raised to its caller
    localFiles      \* the files written under LOCAL_STORAGE

archiveVars ==
    <<pc, impl, file_name, fields, given, blob_name, url, attempt,
      last_exception, events, raised, localFiles>>

(***************************************************************************)
(* The session state of main.py, and what each rerun of the script did.    *)
(***************************************************************************)
VARIABLES
    processed_file,     \* st.session_state.processed_file
    extracted_fields,   \* st.session_state.extracted_fields
    history             \* one record per rerun of the script, in order

uiVars == <<processed_file, extracted_fields, history>>

\* max_retries = 3
max_retries == 3

\* The seconds of time.sleep(2) between two attempts.
RetryDelay == 2

PutEvent(u, data, o) ==
    [ev |-> "put", url |-> u, data |-> data, outcome |-> o, secs |-> 0]
SleepEvent(secs) ==
    [ev |-> "sleep", url |-> "", data |-> JsonDumps(EmptyDict),
     outcome |-> TransportError, secs |-> secs]

\* The PUTs and the sleeps of a call, in the order they happened.
Puts(c) == SelectSeq(events[c], LAMBDA e : e.ev = "put")
Sleeps(c) == SelectSeq(events[c], LAMBDA e : e.ev = "sleep")

ArchiveInit ==
    /\ pc = [c \in Calls |-> "idle"]
    /\ impl = [c \in Calls |-> "push_to_blob"]
    /\ file_name = [c \in Calls |-> ""]
    /\ fields = [c \in Calls |-> EmptyDict]
    /\ given = [c \in Calls |-> EmptyDict]
    /\ blob_name = [c \in Calls |-> ""]
    /\ url = [c \in Calls |-> ""]
    /\ attempt = [c \in Calls |-> 0]
    /\ last_exception = [c \in Calls |-> NoException]
    /\ events = [c \in Calls |-> <<>>]
    /\ raised = [c \in Calls |-> NoException]
    /\ localFiles = {}

(***************************************************************************)
(* save_to_blob_storage(file_name, fields)                                 *)
(***************************************************************************)
\* A validation that lets every mapping through.
IsEmptyFields_Never(d) == FALSE

\* if not fields
IsEmptyFields(d) == DOMAIN d = {}

\* "documentName" not in fields or not fields["documentName"]
NeedsDocumentName(d) ==
    "documentName" \notin DOMAIN d \/ ~Truthy(d["documentName"])

\* The test of deviceName written like the one of documentName.
NeedsDeviceName_Falsy(d) ==
    "deviceName" \notin DOMAIN d \/ ~Truthy(d["deviceName"])

\* "deviceName" not in fields or fields["deviceName"] is None
NeedsDeviceName(d) ==
    "deviceName" \notin DOMAIN d \/ d["deviceName"] = None

\* The two assignments that ensure the required fields.
EnsureRequired(d) ==
    LET d1 == IF NeedsDocumentName(d)
              THEN DictSet(d, "documentName", Str("Unknown Declaration"))
              ELSE d
    IN  IF NeedsDeviceName(d1) THEN DictSet(d1, "deviceName", List(<<>>)) ELSE d1

\* file_name.split('.')[0]: the text before the first '.', all of it when
\* there is none.
RECURSIVE SplitFirst(_, _)
SplitFirst(name, i) ==
    IF i > Len(name) THEN name
    ELSE IF SubSeq(name, i, i) = "." THEN SubSeq(name, 1, i - 1)
    ELSE SplitFirst(name, i + 1)

\* f"{file_name.split('.')[0]}_result_{timestamp}.json"
BlobName(name, timestamp) ==
    SplitFirst(name, 1) \o "_result_" \o ToString(timestamp) \o ".json"

\* A url built from the file name without its timestamped blob name.
BlobUrl_Unstamped(blob) == BLOB_URL \o CONTAINER_NAME \o "/" \o SAS_TOKEN

\* f"{BLOB_URL}{CONTAINER_NAME}/{blob_name}{SAS_TOKEN}"
BlobUrl(blob) == BLOB_URL \o CONTAINER_NAME \o "/" \o blob \o SAS_TOKEN

\* The exception the else branch raises for a response that is not a 201,
\* or the one requests.put raised itself.
AttemptError(o, c, n) ==
    IF o.kind = "exception"
    THEN Exc("ConnectionError", "transport", 0, c, n)
    ELSE CASE o.status = 403 ->
                Exc("RuntimeError", "Authentication failed. Check your SAS token.", 0, c, n)
           [] o.status = 409 ->
                Exc("RuntimeError", "Blob already exists. Try a different blob name.", 0, c, n)
           [] o.status = 400 ->
                Exc("RuntimeError", "Bad request. Check the blob URL or data format.", 0, c, n)
           [] OTHER ->
                Exc("RuntimeError", "Failed to save to Blob Storage", o.status, c, n)

\* A handler that catches the transport's exceptions only.
Caught_TransportOnly(e) == e.type = "ConnectionError"

\* except Exception as e: the classes of the exceptions the try block can
\* raise that are subclasses of Exception (all of them).
ExceptionClasses == {"RuntimeError", "ValueError", "ConnectionError"}
Caught(e) == e.type \in ExceptionClasses

\* A handler that never stores the exception.
RecordException_Drops(old, e) == old

\* An assignment that keeps the first exception.
RecordException_First(old, e) == IF old = NoException THEN e ELSE old

\* last_exception = e
RecordException(old, e) == e

\* A test that takes every 2xx status for a success.
IsCreated_AnySuccess(o) == o.kind = "response" /\ o.status \in {200, 201}

\* response.status_code == 201
IsCreated(o) == o.kind = "response" /\ o.status = 201

\* A loop test that is off by one.
LoopCondition_OffByOne(n) == n <= 3

\* while attempt < max_retries
LoopCondition(n) == n < max_retries

\* A sleep after every failed attempt, the last one included.
SleepCondition_Always(n) == TRUE

\* if attempt < max_retries (before the sleep)
SleepCondition(n) == n < max_retries

\* last_exception or RuntimeError("Failed to save to Blob Storage after retries.")
FinalError(e, c) ==
    IF e # NoException THEN e
    ELSE Exc("RuntimeError", "Failed to save to Blob Storage after retries.", 0, c, 0)

\* LOCAL_STORAGE = os.getenv("LOCAL_STORAGE", "local_storage")
LOCAL_STORAGE == "local_storage"

\* What the development-only block of upload_service does: SAVE_LOCAL is not
\* "true", or the file is written, or open raises, or json.dump raises and
\* leaves the opened file truncated (both are caught and logged).
LocalSaveCases == {"off", "written", "open_failed", "dump_failed"}

\* open(path, "w") and what is written: the file at path is replaced.
WriteFile(files, path, content) ==
    {f \in files : f.path # path} \cup {[path |-> path, content |-> content]}

\* os.path.join(LOCAL_STORAGE, blob_name)
LocalPath(blob) == LOCAL_STORAGE \o "/" \o blob

\* The caller's call save_to_blob_storage(n, f) of module i.
Invoke(c, i, n, f) ==
    /\ pc[c] = "idle"
    /\ pc' = [pc EXCEPT ![c] = "validate"]
    /\ impl' = [impl EXCEPT ![c] = i]
    /\ file_name' = [file_name EXCEPT ![c] = n]
    /\ fields' = [fields EXCEPT ![c] = f]
    /\ given' = [given EXCEPT ![c] = f]
    /\ UNCHANGED <<blob_name, url, attempt, last_exception, events, raised, localFiles>>

\* From the validation of fields to the blob name; ts is datetime.now() in
\* milliseconds.  push_to_blob builds the url here, upload_service after its
\* local save.
Validate(c, ts) ==
    /\ pc[c] = "validate"
    /\ IF IsEmptyFields(fields[c])
       THEN /\ raised' = [raised EXCEPT ![c] =
                   Exc("ValueError", "Fields dictionary is empty. Cannot save to Blob Storage.", 0, c, 0)]
            /\ pc' = [pc EXCEPT ![c] = "raised"]
            /\ UNCHANGED <<fields, blob_name, url>>
       ELSE /\ fields' = [fields EXCEPT ![c] = EnsureRequired(fields[c])]
            /\ blob_name' = [blob_name EXCEPT ![c] = BlobName(file_name[c], ts)]
            /\ IF impl[c] = "upload_service"
               THEN /\ pc' = [pc EXCEPT ![c] = "localsave"]
                    /\ url' = url
               ELSE /\ pc' = [pc EXCEPT ![c] = "while"]
                    /\ url' = [url EXCEPT ![c] = BlobUrl(blob_name'[c])]
            /\ raised' = raised
    /\ UNCHANGED <<impl, file_name, given, attempt, last_exception, events, localFiles>>

\* A local save whose failure is not caught: the call ends with its error.
LocalSave_Aborts(c, case) ==
    /\ pc[c] = "localsave"
    /\ IF case \in {"open_failed", "dump_failed"}
       THEN /\ raised' = [raised EXCEPT ![c] = Exc("OSError", "local save", 0, c, 0)]
            /\ pc' = [pc EXCEPT ![c] = "raised"]
            /\ UNCHANGED <<url, localFiles>>
       ELSE /\ localFiles' =
                  IF case = "written"
                  THEN WriteFile(localFiles, LocalPath(blob_name[c]), JsonDumps(fields[c]))
                  ELSE localFiles
            /\ url' = [url EXCEPT ![c] = BlobUrl(blob_name[c])]
            /\ pc' = [pc EXCEPT ![c] = "while"]
            /\ raised' = raised
    /\ UNCHANGED <<impl, file_name, fields, given, blob_name, attempt,
                   last_exception, events>>

\* upload_service only: the optional save to local storage, then the url.
LocalSave(c, case) ==
    /\ pc[c] = "localsave"
    /\ localFiles' =
          CASE case = "written" ->
                  WriteFile(localFiles, LocalPath(blob_name[c]), JsonDumps(fields[c]))
            [] case = "dump_failed" ->
                  WriteFile(localFiles, LocalPath(blob_name[c]), JsonDumps(EmptyDict))
            [] OTHER -> localFiles
    /\ url' = [url EXCEPT ![c] = BlobUrl(blob_name[c])]
    /\ pc' = [pc EXCEPT ![c] = "while"]
    /\ UNCHANGED <<impl, file_name, fields, given, blob_name, attempt,
                   last_exception, events, raised>>

\* The test of the while loop and, when it fails, the raise after the loop.
While(c) ==
    /\ pc[c] = "while"
    /\ IF LoopCondition(attempt[c])
       THEN /\ pc' = [pc EXCEPT ![c] = "put"]
            /\ raised' = raised
       ELSE /\ pc' = [pc EXCEPT ![c] = "raised"]
            /\ raised' = [raised EXCEPT ![c] = FinalError(last_exception[c], c)]
    /\ UNCHANGED <<impl, file_name, fields, given, blob_name, url, attempt,
                   last_exception, events, localFiles>>

\* One pass of the try block with outcome o of requests.put, and the except
\* block when the pass raised.
Put(c, o) ==
    /\ pc[c] = "put"
    /\ events' = [events EXCEPT ![c] =
                     Append(@, PutEvent(url[c], JsonDumps(fields[c]), o))]
    /\ IF IsCreated(o)
       THEN /\ pc' = [pc EXCEPT ![c] = "returned"]
            /\ UNCHANGED <<attempt, last_exception, raised>>
       ELSE LET e == AttemptError(o, c, attempt[c] + 1)
            IN  IF Caught(e)
                THEN /\ last_exception' = [last_exception EXCEPT ![c] =
                                              RecordException(@, e)]
                     /\ attempt' = [attempt EXCEPT ![c] = @ + 1]
                     /\ pc' = [pc EXCEPT ![c] =
                                  IF SleepCondition(attempt'[c]) THEN "sleep" ELSE "while"]
                     /\ raised' = raised
                ELSE /\ raised' = [raised EXCEPT ![c] = e]
                     /\ pc' = [pc EXCEPT ![c] = "raised"]
                     /\ UNCHANGED <<attempt, last_exception>>
    /\ UNCHANGED <<impl, file_name, fields, given, blob_name, url, localFiles>>

\* time.sleep(2)
Sleep(c) ==
    /\ pc[c] = "sleep"
    /\ events' = [events EXCEPT ![c] = Append(@, SleepEvent(RetryDelay))]
    /\ pc' = [pc EXCEPT ![c] = "while"]
    /\ UNCHANGED <<impl, file_name, fields, given, blob_name, url, attempt,
                   last_exception, raised, localFiles>>

\* The steps of the archive call c after it was made, its PUTs meeting the
\* outcomes outs.
ArchiveStepWith(c, outs) ==
    \/ \E ts \in 0..MaxTimestamp : Validate(c, ts)
    \/ \E case \in LocalSaveCases : LocalSave(c, case)
    \/ While(c)
    \/ \E o \in outs : Put(c, o)
    \/ Sleep(c)

ArchiveStep(c) == ArchiveStepWith(c, Outcomes)

(***************************************************************************)
(* The Analysis Client, upload_to_azure_ai(file_name, file_bytes), which   *)
(* main.py imports from services.upload_service: submit, poll to           *)
(* completion, extract the fields, archive them, return them.              *)
(***************************************************************************)
VARIABLES
    cpc,            \* where the client is
    cname,          \* the file name it was given
    pollAttempt,    \* the attempt counter of the polling loop
    pollCount,      \* the poll requests issued so far
    lastPoll,       \* the answer to the last poll request
    allPending,     \* every poll so far answered 200 with a pending status
    extracted,      \* the mapping the extraction produced
    archiveCalls,   \* the number of times the Archive Writer was invoked
    result,         \* the mapping returned to the caller
    cerror          \* the exception raised to the caller

clientVars ==
    <<cpc, cname, pollAttempt, pollCount, lastPoll, allPending, extracted,
      archiveCalls, result, cerror>>

\* The attempt ceiling of the polling loop.
MaxPollAttempts == 30

\* The ten field names the extraction reads.
FieldNames ==
    {"documentName", "deviceName", "organizationName", "expiryDate",
     "IssuingAuthority", "certificateNo", "firstIssuedDate",
     "extendedValidityDate", "deviceTable", "legislation"}

\* The fields of the first document of a succeeded result, as the API
\* reports them.
ResultDocs ==
    {EmptyDict,
     [documentName |-> Str("Declaration"), deviceName |-> Str("Pump"),
      deviceTable |-> List(<<"Pump", "Valve">>)]}

\* The answers to the submission: a status code and whether the
\* operation-location header is there.
SubmitResponses ==
    {[code |-> 202, header |-> TRUE], [code |-> 202, header |-> FALSE],
     [code |-> 429, header |-> FALSE], [code |-> 401, header |-> FALSE],
     [code |-> 400, header |-> FALSE], [code |-> 500, header |-> FALSE]}

\* The answers to a poll: a transport code and the job status of the body.
JobStatuses == {"notStarted", "running", "succeeded", "failed"}
PollResponses ==
    {[code |-> 200, status |-> st] : st \in JobStatuses}
        \cup {[code |-> 500, status |-> "running"]}
NoPoll == [code |-> 0, status |-> ""]

\* The error a submission that was not accepted is classified as.
SubmitError(r) ==
    CASE r.code = 202 -> Exc("RuntimeError", "configuration: no operation-location", 0, 0, 0)
      [] r.code = 429 -> Exc("RuntimeError", "rate limit", 429, 0, 0)
      [] r.code = 401 -> Exc("RuntimeError", "authentication", 401, 0, 0)
      [] r.code = 400 -> Exc("ValueError", "malformed request", 400, 0, 0)
      [] OTHER -> Exc("RuntimeError", "analysis request failed", r.code, 0, 0)

\* A polling loop that goes on after a failed poll request.
PollFatal_Never(r) == FALSE

\* A poll answered with a transport code that is not the success code.
PollFatal(r) == r.code # 200

\* A handler that lets the Archive Writer's RuntimeError through.
ArchiveFailureSwallowed_ValueOnly(e) == e.type = "ValueError"

\* The client's handler around the archive call catches every exception.
ArchiveFailureSwallowed(e) == e.type \in ExceptionClasses

\* The job status is one that keeps the loop polling.
IsPending(st) == st \in {"notStarted", "running"}

\* A polling loop test that is off by one.
PollCondition_OffByOne(n) == n <= 30

\* while attempt < max_attempts of the polling loop
PollCondition(n) == n < MaxPollAttempts

\* Field extraction: each known field contributes its value, or "" when the
\* document does not have it.
ExtractFields(doc) ==
    [k \in FieldNames |-> IF k \in DOMAIN doc THEN doc[k] ELSE Str("")]

\* ", ".join(xs)
RECURSIVE JoinComma(_)
JoinComma(xs) ==
    IF xs = <<>> THEN ""
    ELSE IF Len(xs) = 1 THEN Head(xs)
    ELSE Head(xs) \o ", " \o JoinComma(Tail(xs))

\* The flattened mapping: list values joined, the others as they are.
Flatten(d) ==
    [k \in DOMAIN d |-> IF d[k].t = "list" THEN Str(JoinComma(d[k].l)) ELSE d[k]]

ClientInit ==
    /\ cpc = "idle"
    /\ cname = ""
    /\ pollAttempt = 0
    /\ pollCount = 0
    /\ lastPoll = NoPoll
    /\ allPending = TRUE
    /\ extracted = EmptyDict
    /\ archiveCalls = 0
    /\ result = EmptyDict
    /\ cerror = NoException

\* The caller's call upload_to_azure_ai(n, bytes).
Upload(n) ==
    /\ cpc = "idle"
    /\ cpc' = "submit"
    /\ cname' = n
    /\ UNCHANGED <<pollAttempt, pollCount, lastPoll, allPending, extracted,
                   archiveCalls, result, cerror, archiveVars>>
    /\ UNCHANGED uiVars

\* submit: the POST and the classification of its answer r.
Submit(r) ==
    /\ cpc = "submit"
    /\ IF r.code = 202 /\ r.header
       THEN cpc' = "poll" /\ cerror' = cerror
       ELSE cpc' = "raised" /\ cerror' = SubmitError(r)
    /\ UNCHANGED <<cname, pollAttempt, pollCount, lastPoll, allPending, extracted,
                   archiveCalls, result, archiveVars>>
    /\ UNCHANGED uiVars

\* One pass of the polling loop: the GET, its answer r and, for a succeeded
\* job, the extraction from the document doc.
Poll(r, doc) ==
    /\ cpc = "poll"
    /\ pollCount' = pollCount + 1
    /\ lastPoll' = r
    /\ allPending' = (allPending /\ r.code = 200 /\ IsPending(r.status))
    /\ IF PollFatal(r)
       THEN /\ cpc' = "raised"
            /\ cerror' = Exc("RuntimeError", "polling failed", r.code, 0, 0)
            /\ extracted' = extracted
       ELSE IF r.status = "succeeded"
       THEN /\ cpc' = "archive"
            /\ extracted' = ExtractFields(doc)
            /\ cerror' = cerror
       ELSE IF IsPending(r.status)
       THEN /\ cpc' = "pollsleep"
            /\ UNCHANGED <<extracted, cerror>>
       ELSE /\ cpc' = "raised"
            /\ cerror' = Exc("RuntimeError", "analysis failed", 0, 0, 0)
            /\ extracted' = extracted
    /\ UNCHANGED <<cname, pollAttempt, archiveCalls, result, archiveVars>>
    /\ UNCHANGED uiVars

\* The wait between two polls, the next test of the loop and, when the
\* ceiling is reached, the timeout error.
PollSleep ==
    /\ cpc = "pollsleep"
    /\ pollAttempt' = pollAttempt + 1
    /\ IF PollCondition(pollAttempt')
       THEN cpc' = "poll" /\ cerror' = cerror
       ELSE cpc' = "raised" /\ cerror' = Exc("TimeoutError", "analysis timed out", 0, 0, 0)
    /\ UNCHANGED <<cname, pollCount, lastPoll, allPending, extracted,
                   archiveCalls, result, archiveVars>>
    /\ UNCHANGED uiVars

\* The client's call of save_to_blob_storage with the flattened mapping.
Archive ==
    /\ cpc = "archive"
    /\ Invoke(1, "upload_service", cname, Flatten(extracted))
    /\ archiveCalls' = archiveCalls + 1
    /\ cpc' = "archiving"
    /\ UNCHANGED <<cname, pollAttempt, pollCount, lastPoll, allPending, extracted,
                   result, cerror>>
    /\ UNCHANGED uiVars

\* The archive call is over: an exception it raised is caught and logged,
\* and the extracted mapping is returned.
Return ==
    /\ cpc = "archiving"
    /\ pc[1] \in {"returned", "raised"}
    /\ IF pc[1] = "raised" /\ ~ArchiveFailureSwallowed(raised[1])
       THEN cpc' = "raised" /\ cerror' = raised[1] /\ result' = result
       ELSE cpc' = "returned" /\ result' = extracted /\ cerror' = cerror
    /\ UNCHANGED <<cname, pollAttempt, pollCount, lastPoll, allPending, extracted,
                   archiveCalls, archiveVars>>
    /\ UNCHANGED uiVars

vars == <<archiveVars, clientVars, uiVars>>

(***************************************************************************)
(* main.py: one rerun of the script per user interaction.                  *)
(***************************************************************************)
\* The reruns that are modelled.
MaxReruns == 3

\* What st.file_uploader returns: None (0) or an uploaded file.
NoFile == 0
UploadedFiles == {NoFile, 1, 2}

\* The mappings upload_to_azure_ai returns to main.py.
UiDocs ==
    {EmptyDict,
     [documentName |-> Str("Declaration"), deviceTable |-> List(<<"Pump">>)],
     [deviceName |-> Str("Pump"), deviceTable |-> List(<<"Pump", "Valve">>),
      legislation |-> List(<<>>)]}
UiMappings == {ExtractFields(doc) : doc \in UiDocs}

\* What the try block meets: upload_to_azure_ai returns a mapping and the
\* rendering after the session state update succeeds or raises, or
\* upload_to_azure_ai raises an exception of some class.
UiOutcomes ==
    {[kind |-> "returned", fields |-> m, rendered |-> r, type |-> ""] :
        m \in UiMappings, r \in BOOLEAN}
    \cup {[kind |-> "raised", fields |-> EmptyDict, rendered |-> FALSE, type |-> t] :
            t \in {"RuntimeError", "ValueError", "KeyError"}}

\* The value of session_state.extracted_fields when there is no table.
NoTable == [columns |-> <<>>, rows |-> {}]

\* The transposed single-row DataFrame: one row per key.
Table(d) ==
    [columns |-> <<"Field", "Certificate Detail">>,
     rows |-> {<<k, d[k]>> : k \in DOMAIN d}]

\* A display mapping built by joining the lists in the returned mapping
\* itself.
BuildDisplay_InPlace(d) ==
    LET joined == [k \in DOMAIN d |->
                      IF d[k].t = "list" THEN Str(JoinComma(d[k].l)) ELSE d[k]]
    IN  [display |-> joined, fields |-> joined]

\* display_fields = {key: ", ".join(value) if isinstance(value, list) else
\* value ...}: the new mapping, and extracted_fields as the comprehension
\* leaves it.
BuildDisplay(d) ==
    [display |-> [k \in DOMAIN d |->
                     IF d[k].t = "list" THEN Str(JoinComma(d[k].l)) ELSE d[k]],
     fields |-> d]

\* A test that processes whatever file is uploaded.
ShouldProcess_Always(uploaded, processed) == uploaded # NoFile

\* if uploaded_file and uploaded_file != st.session_state.processed_file
ShouldProcess(uploaded, processed) == uploaded # NoFile /\ uploaded # processed

\* Handlers that reset processed_file only.
OnFailure_KeepsTable(type, table) ==
    [processed_file |-> NoFile, extracted_fields |-> table,
     status |-> "error"]

\* The three except blocks: the message depends on the class, the session
\* state is reset in each.
OnFailure(type, table) ==
    [processed_file |-> NoFile, extracted_fields |-> NoTable,
     status |-> CASE type = "RuntimeError" -> "Processing failed"
                  [] type = "ValueError" -> "Invalid input"
                  [] OTHER -> "An unexpected error occurred"]

UiInit ==
    /\ processed_file = NoFile
    /\ extracted_fields = NoTable
    /\ history = <<>>

RerunRecord(f, kind, calls, returned, original, display, status) ==
    [file |-> f, before |-> processed_file, kind |-> kind, calls |-> calls,
     returned |-> returned, original |-> original, display |-> display,
     status |-> status]

\* One run of the script with f uploaded; out is what the try block meets
\* when the file is processed.
Rerun(f, out) ==
    /\ Len(history) < MaxReruns
    /\ IF ShouldProcess(f, processed_file)
       THEN IF out.kind = "returned"
            THEN LET b == BuildDisplay(out.fields)
                     table == Table(b.display)
                 IN  IF out.rendered
                     THEN /\ processed_file' = f
                          /\ extracted_fields' = table
                          /\ history' = Append(history,
                                RerunRecord(f, "success", 1, b.fields, out.fields,
                                            b.display, "File processed successfully!"))
                     ELSE LET h == OnFailure("StreamlitAPIException", table)
                          IN  /\ processed_file' = h.processed_file
                              /\ extracted_fields' = h.extracted_fields
                              /\ history' = Append(history,
                                    RerunRecord(f, "failed", 1, b.fields, out.fields,
                                                b.display, h.status))
            ELSE LET h == OnFailure(out.type, extracted_fields)
                 IN  /\ processed_file' = h.processed_file
                     /\ extracted_fields' = h.extracted_fields
                     /\ history' = Append(history,
                           RerunRecord(f, "failed", 1, EmptyDict, EmptyDict,
                                       EmptyDict, h.status))
       ELSE /\ UNCHANGED <<processed_file, extracted_fields>>
            /\ history' = Append(history,
                  RerunRecord(f, IF extracted_fields # NoTable THEN "shown" ELSE "info",
                              0, EmptyDict, EmptyDict, EmptyDict, ""))
    /\ UNCHANGED <<archiveVars, clientVars>>

Init == ArchiveInit /\ ClientInit /\ UiInit

\* One archive call made directly, with any of the inputs.
Call(c) ==
    /\ \E i \in Impls, n \in FileNames, f \in FieldInputs : Invoke(c, i, n, f)
    /\ UNCHANGED <<clientVars, uiVars>>

Step(c) == ArchiveStep(c) /\ UNCHANGED <<clientVars, uiVars>>

\* The Archive Writer called on its own.
Next == Call(1) \/ Step(1)

Spec == Init /\ [][Next]_vars

\* The file names the client is given.
ClientFileNames == {"cert.pdf"}

\* One upload through the Analysis Client.
NextClient ==
    \/ \E n \in ClientFileNames : Upload(n)
    \/ \E r \in SubmitResponses : Submit(r)
    \/ \E r \in PollResponses, doc \in ResultDocs : Poll(r, doc)
    \/ PollSleep
    \/ Archive
    \/ Step(1)
    \/ Return

SpecClient == Init /\ [][NextClient]_vars

\* The inputs and the PUT outcomes of two archive calls that run at the same
\* time.
ConcFields ==
    {MakeDict(Str(""), None, Str("C-1")), MakeDict(Str("Declaration"), Missing, Missing)}
ConcFileNames == {"a.b.pdf"}
ConcOutcomes == {Response(201), Response(403), TransportError}

CallConc(c) ==
    /\ \E i \in Impls, n \in ConcFileNames, f \in ConcFields : Invoke(c, i, n, f)
    /\ UNCHANGED <<clientVars, uiVars>>

StepConc(c) == ArchiveStepWith(c, ConcOutcomes) /\ UNCHANGED <<clientVars, uiVars>>

\* Two archive calls, their steps interleaved in any order.
NextConc == \E c \in Calls : CallConc(c) \/ StepConc(c)

SpecConc == Init /\ [][NextConc]_vars

\* The reruns of the script.
NextUi == \E f \in UploadedFiles, out \in UiOutcomes : Rerun(f, out)

SpecUi == Init /\ [][NextUi]_vars

(***************************************************************************)
(* Properties of the Archive Writer.                                       *)
(***************************************************************************)
\* The call is over: it returned or it raised.
Finished(c) == pc[c] \in {"returned", "raised"}

\* The call was made with a mapping that has at least one key.
GivenNonEmpty(c) == pc[c] # "idle" /\ DOMAIN given[c] # {}

\* The outcomes of the PUTs of a call, in order.
PutOutcomes(c) == [i \in 1..Len(Puts(c)) |-> Puts(c)[i].outcome]

\* A PUT outcome that is a response with status 201.
Is201(o) == o = Response(201)

\* Every PUT so far was answered 500.
All500(c) == \A i \in 1..Len(Puts(c)) : PutOutcomes(c)[i] = Response(500)

\* The kinds of the events of a call, in order.
EventKinds(c) == [i \in 1..Len(events[c]) |-> events[c][i].ev]

\* C1: an archive call with a non-empty mapping whose PUTs are all answered
\* 500 never makes more than 3 PUTs and, once over, has made exactly 3 PUTs
\* with a wait between consecutive ones (2 waits), and has raised the error
\* that its third attempt produced.
C1_AllFail500 ==
    \A c \in Calls :
        (GivenNonEmpty(c) /\ All500(c)) =>
            /\ Len(Puts(c)) <= 3
            /\ Finished(c) =>
                  /\ pc[c] = "raised"
                  /\ EventKinds(c) = <<"put", "sleep", "put", "sleep", "put">>
                  /\ raised[c].at = 3
                  /\ raised[c].call = c
                  /\ raised[c].type = "RuntimeError"
                  /\ raised[c].status = 500

C1_Witness ==
    /\ pc[1] = "raised"
    /\ GivenNonEmpty(1)
    /\ Len(Puts(1)) = 3
    /\ All500(1)

\* C2: an archive call given an empty mapping raises ValueError without
\* having issued a PUT or slept, and no PUT of any call carries the empty
\* record as its payload.
C2_EmptyRejected ==
    \A c \in Calls :
        /\ (pc[c] # "idle" /\ DOMAIN given[c] = {}) =>
              /\ events[c] = <<>>
              /\ pc[c] \in {"validate", "raised"}
              /\ pc[c] = "raised" => raised[c].type = "ValueError"
        /\ \A i \in 1..Len(Puts(c)) : DOMAIN Puts(c)[i].data # {}

C2_Witness ==
    /\ pc[1] = "raised"
    /\ DOMAIN given[1] = {}
    /\ raised[1].type = "ValueError"
    /\ events[1] = <<>>

\* C3: a finished archive call with a non-empty mapping returned normally if
\* and only if one of its PUTs was answered 201; the 201 is then the answer
\* to its last PUT, at most the third, nothing follows it and no error is
\* raised; a call that raised made 3 PUTs.  At every moment the attempt
\* counter is the number of PUTs not answered 201, whether they were answered
\* with another status or ended in a transport exception.
C3_ReturnsIffCreated ==
    \A c \in Calls :
        GivenNonEmpty(c) =>
            LET n == Len(Puts(c))
                created == {i \in 1..n : Is201(PutOutcomes(c)[i])}
            IN  /\ n <= 3
                /\ attempt[c] = Cardinality((1..n) \ created)
                /\ \A i \in created :
                      /\ i = n
                      /\ events[c][Len(events[c])].ev = "put"
                      /\ pc[c] = "returned"
                /\ Finished(c) =>
                      /\ pc[c] = "returned" <=> created # {}
                      /\ pc[c] = "returned" => raised[c] = NoException
                      /\ pc[c] = "raised" => n = 3

C3_Witness ==
    /\ pc[1] = "returned"
    /\ Len(Puts(1)) = 3
    /\ PutOutcomes(1)[1] = TransportError
    /\ PutOutcomes(1)[2] = Response(200)

\* A given value that is blank: None, the empty string or the empty list.
Blank(v) == v = None \/ v = Str("") \/ v = List(<<>>)

\* C4: the record sent in every PUT has documentName "Unknown Declaration"
\* when the given documentName was missing or blank and deviceName [] when
\* the given deviceName was missing or None; every other member is the given
\* value, and no other key is sent.
C4_DefaultsInPayload ==
    \A c \in Calls :
        \A i \in 1..Len(Puts(c)) :
            LET data == Puts(c)[i].data
                g == given[c]
            IN  /\ DOMAIN data = DOMAIN g \cup {"documentName", "deviceName"}
                /\ \A k \in DOMAIN data :
                      IF k = "documentName" /\ (k \notin DOMAIN g \/ Blank(g[k]))
                      THEN data[k] = "\"Unknown Declaration\""
                      ELSE IF k = "deviceName" /\ (k \notin DOMAIN g \/ g[k] = None)
                      THEN data[k] = "[]"
                      ELSE data[k] = JsonValue(g[k])

C4_Witness ==
    /\ Len(Puts(1)) = 2
    /\ given[1] = [documentName |-> Str(""), deviceName |-> None,
                   certificateNo |-> Str("C-1")]
    /\ Puts(1)[2].data["certificateNo"] = "\"C-1\""

\* The statuses that are mapped to an error of their own.
ClassifiedStatuses == {400, 403, 409}

\* C5: a PUT answered 403, 409 or 400 does not end the call: it counts as
\* one attempt, and when it is the first or the second attempt of a finished
\* call another PUT follows it; a call never raises before its third PUT.
C5_ClassifiedStillRetried ==
    \A c \in Calls :
        GivenNonEmpty(c) =>
            /\ \A i \in 1..Len(Puts(c)) :
                  (PutOutcomes(c)[i].status \in ClassifiedStatuses) =>
                      /\ attempt[c] >= i
                      /\ pc[c] # "raised" \/ i = 3 \/ Len(Puts(c)) > i
                      /\ (i < 3 /\ Finished(c)) => Len(Puts(c)) > i
            /\ pc[c] = "raised" => Len(Puts(c)) = 3

C5_Witness ==
    /\ Finished(1)
    /\ Len(Puts(1)) = 3
    /\ PutOutcomes(1)[1] = Response(403)
    /\ PutOutcomes(1)[2] = Response(409)
    /\ PutOutcomes(1)[3] = Response(400)

\* The error an attempt answered o is classified as.
MatchesOutcome(e, o) ==
    CASE o = TransportError -> e.type = "ConnectionError"
      [] o = Response(403) ->
            e.type = "RuntimeError" /\ e.msg = "Authentication failed. Check your SAS token."
      [] o = Response(409) ->
            e.type = "RuntimeError" /\ e.msg = "Blob already exists. Try a different blob name."
      [] o = Response(400) ->
            e.type = "RuntimeError" /\ e.msg = "Bad request. Check the blob URL or data format."
      [] OTHER ->
            /\ e.type = "RuntimeError"
            /\ e.msg = "Failed to save to Blob Storage"
            /\ e.status = o.status

\* C6: the error an archive call raises after 3 failed attempts is the one
\* its third attempt produced, and its classification is that of the third
\* attempt's outcome, whatever the first two attempts failed with.
C6_RaisesThirdError ==
    \A c \in Calls :
        (GivenNonEmpty(c) /\ pc[c] = "raised") =>
            /\ Len(Puts(c)) = 3
            /\ raised[c].at = 3
            /\ raised[c].call = c
            /\ MatchesOutcome(raised[c], PutOutcomes(c)[3])

C6_Witness ==
    /\ pc[1] = "raised"
    /\ PutOutcomes(1) = <<Response(403), TransportError, Response(409)>>
    /\ raised[1].msg = "Blob already exists. Try a different blob name."

\* C7: an archive call leaves the mapping object it was given with the keys
\* and values it had when the call was made.
C7_FieldsUnchanged ==
    \A c \in Calls : pc[c] # "idle" => fields[c] = given[c]

\* C13: the events of an archive call start with a PUT; every sleep lasts 2
\* seconds, comes right after a PUT that was not answered 201 and, once the
\* call is over, is followed by another PUT; every PUT that is not the last
\* event is followed by a sleep; a finished call ends with a PUT, so a call
\* with k PUTs has slept k-1 times.
C13_WaitsBetweenAttempts ==
    \A c \in Calls :
        LET ev == events[c]
            n == Len(ev)
        IN  /\ n > 0 => ev[1].ev = "put"
            /\ \A i \in 1..n :
                  /\ ev[i].ev = "sleep" =>
                        /\ ev[i].secs = 2
                        /\ i > 1
                        /\ ev[i - 1].ev = "put"
                        /\ ~Is201(ev[i - 1].outcome)
                        /\ i < n => ev[i + 1].ev = "put"
                        /\ Finished(c) => i < n
                  /\ (ev[i].ev = "put" /\ i < n) => ev[i + 1].ev = "sleep"
            /\ (Finished(c) /\ n > 0) =>
                  /\ ev[n].ev = "put"
                  /\ Len(Sleeps(c)) = Len(Puts(c)) - 1

C13_Witness ==
    /\ pc[1] = "raised"
    /\ Len(Puts(1)) = 3
    /\ Len(Sleeps(1)) = 2
    /\ events[1][5].outcome = Response(409)

\* The text of name before its last '.', all of name when it has none.
RECURSIVE Stem(_, _)
Stem(name, i) ==
    IF i < 1 THEN name
    ELSE IF SubSeq(name, i, i) = "." THEN SubSeq(name, 1, i - 1)
    ELSE Stem(name, i - 1)

\* C14: the storage key of a call is the file name without its final
\* extension, then "_result_", the timestamp and ".json".
C14_KeyIsStem ==
    \A c \in Calls :
        blob_name[c] # "" =>
            \E ts \in 0..MaxTimestamp :
                blob_name[c] =
                    Stem(file_name[c], Len(file_name[c])) \o "_result_"
                        \o ToString(ts) \o ".json"

\* C15: the error an archive call raises is never the generic one of the
\* final raise statement: a call that leaves its loop without returning has
\* made 3 failed attempts and raises the last_exception they stored.
C15_NeverGenericError ==
    \A c \in Calls :
        /\ raised[c].msg # "Failed to save to Blob Storage after retries."
        /\ (pc[c] = "raised" /\ GivenNonEmpty(c)) =>
              /\ attempt[c] = 3
              /\ last_exception[c] # NoException
              /\ raised[c] = last_exception[c]

C15_Witness ==
    /\ pc[1] = "raised"
    /\ attempt[1] = 3
    /\ last_exception[1].type = "ConnectionError"
    /\ raised[1] = last_exception[1]

\* C16: every PUT of a call goes to the same url, the one built from the
\* call's blob name, with the same payload; and from the first test of the
\* loop on, the blob name, the url and the mapping of the call do not change.
C16_SameRequestOnRetry ==
    /\ [](\A c \in Calls :
            \A i \in 1..Len(Puts(c)) :
                /\ Puts(c)[i].url = Puts(c)[1].url
                /\ Puts(c)[i].data = Puts(c)[1].data
                /\ Puts(c)[i].url =
                      BLOB_URL \o CONTAINER_NAME \o "/" \o blob_name[c] \o SAS_TOKEN
                /\ Puts(c)[i].data = JsonDumps(fields[c]))
    /\ [][\A c \in Calls :
            pc[c] \in {"while", "put", "sleep"} =>
                /\ blob_name'[c] = blob_name[c]
                /\ url'[c] = url[c]
                /\ fields'[c] = fields[c]]_vars

C16_Witness ==
    /\ Len(Puts(1)) = 2
    /\ Puts(1)[1].outcome = Response(409)
    /\ Puts(1)[2].url = Puts(1)[1].url
    /\ Puts(1)[2].url = "https://acct.blob.core.windows.net/results/a_result_1.json?sv=sas"

\* The PUTs of a call that were not answered 201.
FailedPuts(c) == {i \in 1..Len(Puts(c)) : ~Is201(PutOutcomes(c)[i])}

\* C12: with two archive calls interleaved in any order, each call makes at
\* most 3 PUTs, its attempt counter counts its own failed PUTs only, its
\* last error is the one its own latest failed attempt produced, and the
\* error it raises is the one of its own third attempt.
C12_CallsIsolated ==
    \A c \in Calls :
        GivenNonEmpty(c) =>
            /\ Len(Puts(c)) <= 3
            /\ attempt[c] = Cardinality(FailedPuts(c))
            /\ attempt[c] = 0 => last_exception[c] = NoException
            /\ attempt[c] > 0 =>
                  /\ last_exception[c].call = c
                  /\ last_exception[c].at = attempt[c]
                  /\ MatchesOutcome(last_exception[c], PutOutcomes(c)[attempt[c]])
            /\ pc[c] = "raised" =>
                  /\ raised[c].call = c
                  /\ raised[c].at = 3
                  /\ MatchesOutcome(raised[c], PutOutcomes(c)[3])

C12_Witness ==
    /\ pc[1] = "raised"
    /\ pc[2] = "sleep"
    /\ attempt[2] = 1
    /\ PutOutcomes(1) = <<Response(403), Response(403), Response(403)>>
    /\ PutOutcomes(2) = <<TransportError>>

\* An exception without the call it was created in.
Anonymous(e) == [e EXCEPT !.call = 0]

\* Two finished calls, one of each module, that were given the same mapping
\* and file name, read the same timestamp and met the same PUT outcomes.
SameRun(a, b) ==
    /\ impl[a] = "push_to_blob"
    /\ impl[b] = "upload_service"
    /\ Finished(a)
    /\ Finished(b)
    /\ given[a] = given[b]
    /\ file_name[a] = file_name[b]
    /\ blob_name[a] = blob_name[b]
    /\ PutOutcomes(a) = PutOutcomes(b)

\* C19: a push_to_blob call and an upload_service call with the same inputs
\* and PUT outcomes have issued the same PUTs (url and payload) and sleeps in
\* the same order, ended the same way with the same error, and left the
\* mapping the same; the local save of upload_service happens before its
\* first PUT and never for push_to_blob, and whatever it did, a finished call
\* with a non-empty mapping has issued its PUTs.
C19_ImplementationsAgree ==
    /\ \A a, b \in Calls :
          SameRun(a, b) =>
              /\ events[a] = events[b]
              /\ pc[a] = pc[b]
              /\ Anonymous(raised[a]) = Anonymous(raised[b])
              /\ fields[a] = fields[b]
              /\ url[a] = url[b]
    /\ \A c \in Calls :
          /\ pc[c] = "localsave" => events[c] = <<>> /\ impl[c] = "upload_service"
          /\ (Finished(c) /\ GivenNonEmpty(c)) => Len(Puts(c)) >= 1
    /\ (\A c \in Calls : impl[c] = "push_to_blob") => localFiles = {}

C19_Witness ==
    /\ SameRun(1, 2)
    /\ pc[2] = "raised"
    /\ PutOutcomes(2) = <<TransportError, Response(403), Response(403)>>
    /\ \E f \in localFiles :
          f.path = LocalPath(blob_name[2]) /\ f.content # JsonDumps(fields[2])

(***************************************************************************)
(* Properties of the Analysis Client.                                      *)
(***************************************************************************)
\* The last poll was answered 200 with the job succeeded.
SucceededPoll == lastPoll = [code |-> 200, status |-> "succeeded"]

\* C8: the client invokes the Archive Writer at most once, only after a poll
\* reported the job succeeded and with the flattened extracted mapping; once
\* it has, the client raises no error, whatever the archive call does, and
\* when the client returns it returns the extracted mapping with its ten
\* keys, the archive call being over.
C8_ArchiveOnceNonFatal ==
    /\ archiveCalls <= 1
    /\ archiveCalls = 1 <=> pc[1] # "idle"
    /\ archiveCalls = 1 =>
          /\ SucceededPoll
          /\ given[1] = Flatten(extracted)
          /\ cpc \in {"archiving", "returned"}
          /\ cerror = NoException
    /\ cpc = "returned" =>
          /\ archiveCalls = 1
          /\ Finished(1)
          /\ result = extracted
          /\ DOMAIN result = FieldNames

C8_Witness ==
    /\ cpc = "returned"
    /\ pc[1] = "raised"
    /\ raised[1].type = "RuntimeError"
    /\ result = extracted
    /\ result["deviceTable"] = List(<<"Pump", "Valve">>)

\* C9: the client issues at most 30 poll requests; when all 30 were answered
\* with a pending status it raises a timeout error (after its last wait),
\* and a client that timed out has extracted and returned nothing and has
\* not invoked the Archive Writer.
C9_PollTimeout ==
    /\ pollCount <= 30
    /\ (allPending /\ pollCount = 30) =>
          /\ cpc \in {"pollsleep", "raised"}
          /\ cpc = "raised" => cerror.type = "TimeoutError"
    /\ cerror.type = "TimeoutError" =>
          /\ cpc = "raised"
          /\ allPending
          /\ pollCount = 30
          /\ result = EmptyDict
          /\ extracted = EmptyDict
          /\ archiveCalls = 0
          /\ pc[1] = "idle"

C9_Witness ==
    /\ cpc = "raised"
    /\ cerror.type = "TimeoutError"
    /\ pollCount = 30
    /\ lastPoll.status = "notStarted"

\* The last poll was answered with a transport code other than 200.
FailedPoll == pollCount > 0 /\ lastPoll.code # 200

\* C10: once a poll is answered with a non-success transport code the client
\* has raised an error, has returned and extracted nothing and has not
\* invoked the Archive Writer, and it issues no poll request and makes no
\* archive call afterwards.
C10_PollErrorFatal ==
    /\ [](FailedPoll =>
            /\ cpc = "raised"
            /\ cerror.type = "RuntimeError"
            /\ cerror.msg = "polling failed"
            /\ result = EmptyDict
            /\ extracted = EmptyDict
            /\ archiveCalls = 0)
    /\ [][FailedPoll =>
            /\ pollCount' = pollCount
            /\ archiveCalls' = archiveCalls
            /\ cpc' = cpc]_vars

C10_Witness ==
    /\ FailedPoll
    /\ cpc = "raised"
    /\ pollCount = 3
    /\ pollAttempt = 2

(***************************************************************************)
(* Properties of main.py.                                                  *)
(***************************************************************************)
\* The elements of xs with ", " between them.
RECURSIVE JoinedText(_)
JoinedText(xs) ==
    IF Len(xs) = 0 THEN ""
    ELSE IF Len(xs) = 1 THEN xs[1]
    ELSE JoinedText(SubSeq(xs, 1, Len(xs) - 1)) \o ", " \o xs[Len(xs)]

\* The reruns in which upload_to_azure_ai returned a mapping.
ReturnedReruns == {i \in 1..Len(history) : DOMAIN history[i].original # {}}

\* C11: for every mapping upload_to_azure_ai returns, the display mapping has
\* the same keys, each list value replaced by the str of its elements joined
\* with ", " and every other value as it is, and the returned mapping is left
\* as it was returned, its list values still lists; the stored table is the
\* one of the display mapping.
C11_DisplayJoinsLists ==
    \A i \in ReturnedReruns :
        LET h == history[i]
        IN  /\ DOMAIN h.display = DOMAIN h.original
            /\ \A k \in DOMAIN h.original :
                  IF h.original[k].t = "list"
                  THEN h.display[k] = Str(JoinedText(h.original[k].l))
                  ELSE h.display[k] = h.original[k]
            /\ h.returned = h.original
            /\ (i = Len(history) /\ h.kind = "success") =>
                  extracted_fields = Table(h.display)

C11_Witness ==
    /\ Len(history) = 1
    /\ history[1].kind = "success"
    /\ history[1].original["deviceTable"] = List(<<"Pump", "Valve">>)
    /\ history[1].display["deviceTable"] = Str("Pump, Valve")
    /\ history[1].display["legislation"] = Str("")
    /\ history[1].returned["deviceTable"] = List(<<"Pump", "Valve">>)

\* C17: after every rerun processed_file is None if and only if
\* extracted_fields is None; a rerun whose processing failed leaves both
\* None, and one whose processing succeeded leaves processed_file the file
\* just processed and extracted_fields its table.
C17_SessionStateConsistent ==
    /\ processed_file = NoFile <=> extracted_fields = NoTable
    /\ history # <<>> =>
          LET h == history[Len(history)]
          IN  /\ h.kind = "failed" =>
                    processed_file = NoFile /\ extracted_fields = NoTable
              /\ h.kind = "success" =>
                    /\ h.file # NoFile
                    /\ processed_file = h.file
                    /\ extracted_fields = Table(h.display)

C17_Witness ==
    /\ Len(history) = 3
    /\ history[1].kind = "success"
    /\ history[2].kind = "shown"
    /\ history[3].kind = "failed"
    /\ history[3].status = "Invalid input"
    /\ processed_file = NoFile
    /\ extracted_fields = NoTable

\* C18: upload_to_azure_ai is invoked at most once per rerun and only for an
\* uploaded file; it is not invoked in the reruns that follow a successful
\* processing of a file while that file stays the uploaded one (the stored
\* table is shown), and it is invoked in a rerun that follows a failed
\* processing of the file that is still uploaded.
C18_ResubmitOnlyAfterFailure ==
    \A i \in 1..Len(history) :
        /\ history[i].calls <= 1
        /\ history[i].calls = 1 => history[i].file # NoFile
        /\ \A j \in 1..(i - 1) :
              (/\ history[j].kind = "success"
               /\ \A m \in j..i : history[m].file = history[j].file) =>
                  history[i].calls = 0 /\ history[i].kind = "shown"
        /\ (i > 1 /\ history[i - 1].kind = "failed"
                  /\ history[i].file = history[i - 1].file) =>
              history[i].calls = 1

C18_Witness ==
    /\ Len(history) = 3
    /\ history[1].kind = "failed" /\ history[1].file = 1
    /\ history[2].kind = "success" /\ history[2].file = 1
    /\ history[3].kind = "shown" /\ history[3].file = 1

====
